---- MODULE Spec2Model ----
(***************************************************************************)
(* Model of media_keys_t (radiotray-ng, extras/media_keys/linux):          *)
(* the key mapping built by the constructor, the resolution of the bus     *)
(* service name, the start-up and shut-down hand-shake between the caller  *)
(* thread and gio_thread over gio_thread_mutex / gio_thread_cv, and the    *)
(* signal handler on_gio_signal.                                           *)
(***************************************************************************)
EXTENDS Integers, Sequences, FiniteSets, TLC

VARIABLES
    config,       \* IConfig: mapping option, four key names, old-dbus-name preference
    xdg,          \* getenv("XDG_CURRENT_DESKTOP"): NoEnv or Env(string)
    appState,     \* IRadioTrayNG::get_state()
    media_keys,   \* std::map<std::string, std::function<void()>>
    dbus_name,    \* std::string dbus_name
    mpc,          \* position of the caller thread (constructor / destructor)
    tpc,          \* position of gio_thread
    mutex,        \* owner of gio_thread_mutex
    waiters,      \* threads blocked inside gio_thread_cv.wait
    proxy,        \* GDBusProxy* proxy of gio_thread
    handler,      \* on_gio_signal connected to the proxy's "g-signal"
    busLog,       \* bus operations issued so far, in order
    last,         \* the last signal handled and the actions it invoked
    nSignals,     \* number of signals handled so far
    ctorMapping,  \* value of the mapping option as the constructor read it
    outcomes      \* what each handled signal ended in: an error logged, the
                  \* action called, or the key ignored

vars == <<config, xdg, appState, media_keys, dbus_name, mpc, tpc, mutex, waiters,
          proxy, handler, busLog, last, nSignals, ctorMapping, outcomes>>

----------------------------------------------------------------------------
(* Bounds *)

MaxSignals == 2

----------------------------------------------------------------------------
(* Strings are sequences of ASCII codes, so that to_lower and find act on  *)
(* characters.                                                             *)

sPlay == <<80, 108, 97, 121>>
sStop == <<83, 116, 111, 112>>
sPlayLower == <<112, 108, 97, 121>>
sPlayUpper == <<80, 76, 65, 89>>
sNext == <<78, 101, 120, 116>>
sNextLower == <<110, 101, 120, 116>>
sNextUpper == <<78, 69, 88, 84>>
sUpUpper == <<85, 80>>
sUpLower == <<117, 112>>
sPv == <<80, 118>>
sZz == <<90, 122>>
sGnome == <<103, 110, 111, 109, 101>>
sKDE == <<75, 68, 69>>
sUbuntuGnome == <<117, 98, 117, 110, 116, 117, 58, 71, 78, 79, 77, 69>>

\* what std::getenv returns: a null pointer, or a string
NoEnv == [set |-> FALSE, value |-> <<>>]
Env(str) == [set |-> TRUE, value |-> str]
\* APP_NAME + "-" + getpid(), line 36
app_name == "radiotray-ng-4711"
ModernName == "org.gnome.SettingsDaemon.MediaKeys"
LegacyName == "org.gnome.SettingsDaemon"

STATE_STOPPED == "STOPPED"
AppStates == {STATE_STOPPED, "PLAYING", "BUFFERING"}

\* radiotray_ng::to_lower: every upper-case ASCII letter becomes its lower-case letter
ToLower(s) == [i \in DOMAIN s |-> IF s[i] \in 65..90 THEN s[i] + 32 ELSE s[i]]

\* std::string::find(sub) != npos
Contains(s, sub) ==
    \E i \in 1..(Len(s) - Len(sub) + 1) : SubSeq(s, i, i + Len(sub) - 1) = sub

----------------------------------------------------------------------------
(* Inputs *)

\* the four configured key names: one configuration with names that are equal
\* after lower-casing, one with names that lower-case to "play" and "stop"
KeyConfigDuplicates ==
    [up |-> sUpUpper, down |-> sUpLower, next |-> sNext, prev |-> sNextUpper]
KeyConfigPlayStop ==
    [up |-> sPlayUpper, down |-> sStop, next |-> sNext, prev |-> sPv]
KeyConfigs == {KeyConfigDuplicates, KeyConfigPlayStop}

OldNamePrefs == {"absent", "true", "false"}
XdgValues == {NoEnv, Env(sKDE), Env(sUbuntuGnome)}

SignalKeys == {sPlay, sStop, sPlayLower, sUpLower, sNextLower, sZz}

\* a signal's parameters: a null pointer, or a tuple of n children; isString
\* tells whether g_variant_get_string returns the string key for child 1
Payloads ==
    {[kind |-> "null", n |-> 0, isString |-> FALSE, key |-> <<>>]}
    \cup {[kind |-> "tuple", n |-> n, isString |-> TRUE, key |-> sPlay] : n \in {1, 3}}
    \cup {[kind |-> "tuple", n |-> 2, isString |-> FALSE, key |-> <<>>]}
    \cup {[kind |-> "tuple", n |-> 2, isString |-> TRUE, key |-> k] : k \in SignalKeys}

NoSignal ==
    [payload |-> [kind |-> "none", n |-> 0, isString |-> FALSE, key |-> <<>>],
     state |-> "unread", invoked |-> <<>>]

----------------------------------------------------------------------------
(* The key mapping *)

EmptyMap == [k \in {} |-> "none"]

\* Put that keeps an existing binding, as std::map::insert does
Put_KeepFirst(m, k, v) ==
    [x \in (DOMAIN m) \cup {k} |-> IF x \in DOMAIN m THEN m[x] ELSE v]

\* std::map::operator[] followed by assignment
Put(m, k, v) == [x \in (DOMAIN m) \cup {k} |-> IF x = k THEN v ELSE m[x]]

\* BuildMediaKeys that inserts the names as configured, not lower-cased
BuildMediaKeys_NoLower(cfg) ==
    IF cfg.mapping
    THEN Put(Put(Put(Put(EmptyMap,
                         cfg.up, "volume_up_msg"),
                     cfg.down, "volume_down_msg"),
                 cfg.next, "next_station_msg"),
             cfg.prev, "previous_station_msg")
    ELSE EmptyMap

\* constructor, lines 40-55
BuildMediaKeys(cfg) ==
    IF cfg.mapping
    THEN Put(Put(Put(Put(EmptyMap,
                         ToLower(cfg.up), "volume_up_msg"),
                     ToLower(cfg.down), "volume_down_msg"),
                 ToLower(cfg.next), "next_station_msg"),
             ToLower(cfg.prev), "previous_station_msg")
    ELSE EmptyMap

\* ResolveDbusName that looks for "gnome" without lower-casing the identifier
ResolveDbusName_CaseSensitive(cfg, env) ==
    IF cfg.oldName = "absent"
    THEN IF env.set
         THEN IF ~Contains(env.value, sGnome) THEN LegacyName ELSE ModernName
         ELSE ModernName
    ELSE IF cfg.oldName = "true" THEN LegacyName ELSE ModernName

\* constructor, lines 37 and 58-81
ResolveDbusName(cfg, env) ==
    IF cfg.oldName = "absent"
    THEN IF env.set
         THEN IF ~Contains(ToLower(env.value), sGnome) THEN LegacyName ELSE ModernName
         ELSE ModernName
    ELSE IF cfg.oldName = "true" THEN LegacyName ELSE ModernName

----------------------------------------------------------------------------
(* on_gio_signal *)

\* PlayToggle with the branches exchanged
PlayToggle_Inverted(st) == IF st = STATE_STOPPED THEN <<"stop">> ELSE <<"play">>

\* PlayToggle that does not look at the playback state
PlayToggle_AlwaysPlay(st) == <<"play">>

\* lines 169-180
PlayToggle(st) == IF st = STATE_STOPPED THEN <<"play">> ELSE <<"stop">>

\* MappedAction that does not read the mapping option again
MappedAction_NoOption(key, mappingNow, keys) ==
    IF ToLower(key) \in DOMAIN keys
    THEN <<keys[ToLower(key)]>>
    ELSE <<>>

\* lines 183-192
MappedAction(key, mappingNow, keys) ==
    IF mappingNow /\ ToLower(key) \in DOMAIN keys
    THEN <<keys[ToLower(key)]>>
    ELSE <<>>

\* HandlerCalls that does not count the payload's children
HandlerCalls_NoArityCheck(p, st, mappingNow, keys) ==
    IF p.kind = "null" THEN <<>>
    ELSE IF ~p.isString THEN <<>>
    ELSE IF p.key = sStop THEN <<"stop">>
    ELSE IF p.key = sPlay THEN PlayToggle(st)
    ELSE MappedAction(p.key, mappingNow, keys)

\* HandlerCalls that consults the mapping before the "Stop" and "Play" cases
HandlerCalls_MapperFirst(p, st, mappingNow, keys) ==
    IF p.kind = "null" \/ p.n # 2 THEN <<>>
    ELSE IF ~p.isString THEN <<>>
    ELSE IF MappedAction(p.key, mappingNow, keys) # <<>>
         THEN MappedAction(p.key, mappingNow, keys)
    ELSE IF p.key = sStop THEN <<"stop">>
    ELSE IF p.key = sPlay THEN PlayToggle(st)
    ELSE <<>>

\* HandlerCalls without the "Stop" case: the key goes to the mapping
HandlerCalls_NoStop(p, st, mappingNow, keys) ==
    IF p.kind = "null" \/ p.n # 2 THEN <<>>
    ELSE IF ~p.isString THEN <<>>
    ELSE IF p.key = sPlay THEN PlayToggle(st)
    ELSE MappedAction(p.key, mappingNow, keys)

\* the actions one invocation of on_gio_signal calls on radiotray_ng, in order
HandlerCalls(p, st, mappingNow, keys) ==
    IF p.kind = "null" \/ p.n # 2 THEN <<>>
    ELSE IF ~p.isString THEN <<>>
    ELSE IF p.key = sStop THEN <<"stop">>
    ELSE IF p.key = sPlay THEN PlayToggle(st)
    ELSE MappedAction(p.key, mappingNow, keys)

\* line 171: the playback state the invocation reads; it reads none unless the
\* key is "Play"
StateRead(p, st) ==
    IF p.kind = "null" \/ p.n # 2 \/ ~p.isString \/ p.key # sPlay
    THEN "unread"
    ELSE st

\* how one invocation ends: LOG(error) at lines 138 and 156, the action called,
\* or LOG(debug) "ignoring" at line 194
HandlerOutcome(p, inv) ==
    IF p.kind = "null" \/ p.n # 2 \/ ~p.isString THEN "error"
    ELSE IF inv = <<>> THEN "ignored"
    ELSE inv[1]

\* the playback states the player may be in after a call
AfterCall(a, st) ==
    IF a = "play" THEN {"PLAYING", "BUFFERING"}
    ELSE IF a = "stop" THEN {STATE_STOPPED}
    ELSE {st}

----------------------------------------------------------------------------
(* Initial state: the object is not constructed yet *)

InitWith(keyConfigs, prefs, envs) ==
    /\ \E kc \in keyConfigs, en \in BOOLEAN, old \in prefs :
          config = [mapping |-> en, up |-> kc.up, down |-> kc.down,
                    next |-> kc.next, prev |-> kc.prev, oldName |-> old]
    /\ xdg \in envs
    /\ appState \in AppStates
    /\ media_keys = EmptyMap
    /\ dbus_name = ModernName
    /\ mpc = "init"
    /\ tpc = "none"
    /\ mutex = "free"
    /\ waiters = {}
    /\ proxy = "null"
    /\ handler = FALSE
    /\ busLog = <<>>
    /\ last = NoSignal
    /\ nSignals = 0
    /\ ctorMapping = FALSE
    /\ outcomes = <<>>

\* every key configuration, no stored old-dbus-name preference
Init == InitWith(KeyConfigs, {"absent"}, XdgValues)

\* every combination of the old-dbus-name preference and the session identifier
InitResolve == InitWith({KeyConfigPlayStop}, OldNamePrefs, XdgValues)

----------------------------------------------------------------------------
(* gio_thread_cv *)

\* notify_one: the thread it unblocks; nobody when no thread is waiting
NotifyOne(w) == IF w = {} THEN {"nobody"} ELSE w

\* one bus operation or notification: its name, its string argument, its number
Op(op, name) == [op |-> op, name |-> name, prio |-> 0]

Log(e) == busLog' = Append(busLog, e)

----------------------------------------------------------------------------
(* Caller thread: media_keys_t::media_keys_t, lines 33-91 *)

\* lines 33-85: build the mapping, resolve the bus name, lock gio_thread_mutex
CtorBuild ==
    /\ mpc = "init"
    /\ mutex = "free"
    /\ media_keys' = BuildMediaKeys(config)
    /\ ctorMapping' = config.mapping
    /\ dbus_name' = ResolveDbusName(config, xdg)
    /\ mutex' = "main"
    /\ mpc' = "locked"
    /\ UNCHANGED <<config, xdg, appState, tpc, waiters, proxy, handler, busLog,
                   last, nSignals, outcomes>>

\* line 87: start gio_thread
CtorSpawn ==
    /\ mpc = "locked"
    /\ tpc = "none"
    /\ tpc' = "connect"
    /\ mpc' = "spawned"
    /\ UNCHANGED <<config, xdg, appState, media_keys, dbus_name, mutex, waiters,
                   proxy, handler, busLog, last, nSignals, ctorMapping, outcomes>>

\* line 90: gio_thread_cv.wait(lock) releases the mutex and blocks
CtorWait ==
    /\ mpc = "spawned"
    /\ mutex = "main"
    /\ mutex' = "free"
    /\ waiters' = waiters \cup {"main"}
    /\ mpc' = "waiting"
    /\ UNCHANGED <<config, xdg, appState, media_keys, dbus_name, tpc, proxy,
                   handler, busLog, last, nSignals, ctorMapping, outcomes>>

\* lines 90-91: the unblocked wait re-locks the mutex, the constructor returns
\* and the lock goes out of scope
CtorReturn ==
    /\ mpc = "woken"
    /\ mutex = "free"
    /\ mpc' = "constructed"
    /\ UNCHANGED <<config, xdg, appState, media_keys, dbus_name, tpc, mutex,
                   waiters, proxy, handler, busLog, last, nSignals, ctorMapping, outcomes>>

----------------------------------------------------------------------------
(* Caller thread: media_keys_t::~media_keys_t, lines 93-103 *)

\* line 97: gio_thread_cv.notify_one()
DtorNotify ==
    /\ mpc = "constructed"
    /\ \E t \in NotifyOne(waiters) :
          /\ waiters' = waiters \ {t}
          /\ tpc' = IF t = "gio" THEN "woken" ELSE tpc
    /\ Log(Op("shutdown", ""))
    /\ mpc' = "joining"
    /\ UNCHANGED <<config, xdg, appState, media_keys, dbus_name, mutex, proxy,
                   handler, last, nSignals, ctorMapping, outcomes>>

\* DtorJoin without the join: the destructor returns while gio_thread runs
DtorJoin_NoJoin ==
    /\ mpc = "joining"
    /\ mpc' = "destroyed"
    /\ UNCHANGED <<config, xdg, appState, media_keys, dbus_name, tpc, mutex,
                   waiters, proxy, handler, busLog, last, nSignals, ctorMapping, outcomes>>

\* lines 99-102: join returns once gio_thread has returned
DtorJoin ==
    /\ mpc = "joining"
    /\ tpc = "exited"
    /\ mpc' = "destroyed"
    /\ UNCHANGED <<config, xdg, appState, media_keys, dbus_name, tpc, mutex,
                   waiters, proxy, handler, busLog, last, nSignals, ctorMapping, outcomes>>

----------------------------------------------------------------------------
(* Background thread: media_keys_t::gio_thread, lines 198-249 *)

\* GioConnect that tries again after a failed attempt
GioConnect_Retry ==
    /\ tpc = "connect"
    /\ \E ok \in BOOLEAN :
          /\ proxy' = IF ok THEN "live" ELSE "null"
          /\ tpc' = IF ok THEN "register"
                    ELSE IF Len(busLog) = 0 THEN "connect" ELSE "failnotify"
          /\ Log(Op(IF ok THEN "connect_ok" ELSE "connect_failed", dbus_name))
    /\ UNCHANGED <<config, xdg, appState, media_keys, dbus_name, mpc, mutex,
                   waiters, handler, last, nSignals, ctorMapping, outcomes>>

\* lines 203-212: g_dbus_proxy_new_for_bus_sync succeeds or returns nullptr
GioConnect ==
    /\ tpc = "connect"
    /\ \E ok \in BOOLEAN :
          /\ proxy' = IF ok THEN "live" ELSE "null"
          /\ tpc' = IF ok THEN "register" ELSE "failnotify"
          /\ Log(Op(IF ok THEN "connect_ok" ELSE "connect_failed", dbus_name))
    /\ UNCHANGED <<config, xdg, appState, media_keys, dbus_name, mpc, mutex,
                   waiters, handler, last, nSignals, ctorMapping, outcomes>>

\* GioFailNotify without the return: gio_thread goes on with a null proxy
GioFailNotify_NoReturn ==
    /\ tpc = "failnotify"
    /\ \E t \in NotifyOne(waiters) :
          /\ waiters' = waiters \ {t}
          /\ mpc' = IF t = "main" THEN "woken" ELSE mpc
    /\ Log(Op("ready", ""))
    /\ tpc' = "register"
    /\ UNCHANGED <<config, xdg, appState, media_keys, dbus_name, mutex, proxy,
                   handler, last, nSignals, ctorMapping, outcomes>>

\* lines 214-217: notify_one, return
GioFailNotify ==
    /\ tpc = "failnotify"
    /\ \E t \in NotifyOne(waiters) :
          /\ waiters' = waiters \ {t}
          /\ mpc' = IF t = "main" THEN "woken" ELSE mpc
    /\ Log(Op("ready", ""))
    /\ tpc' = "exited"
    /\ UNCHANGED <<config, xdg, appState, media_keys, dbus_name, mutex, proxy,
                   handler, last, nSignals, ctorMapping, outcomes>>

\* line 220: g_signal_connect(proxy, "g-signal", on_gio_signal, this)
GioRegister ==
    /\ tpc = "register"
    /\ handler' = TRUE
    /\ Log(Op("g_signal_connect", ""))
    /\ tpc' = "grab"
    /\ UNCHANGED <<config, xdg, appState, media_keys, dbus_name, mpc, mutex,
                   waiters, proxy, last, nSignals, ctorMapping, outcomes>>

\* lines 222-229: GrabMediaPlayerKeys(app_name, 0)
GioGrab ==
    /\ tpc = "grab"
    /\ Log(Op("GrabMediaPlayerKeys", app_name))
    /\ tpc' = "notify"
    /\ UNCHANGED <<config, xdg, appState, media_keys, dbus_name, mpc, mutex,
                   waiters, proxy, handler, last, nSignals, ctorMapping, outcomes>>

\* line 232: signal that we are ready
GioNotifyReady ==
    /\ tpc = "notify"
    /\ \E t \in NotifyOne(waiters) :
          /\ waiters' = waiters \ {t}
          /\ mpc' = IF t = "main" THEN "woken" ELSE mpc
    /\ Log(Op("ready", ""))
    /\ tpc' = "lock"
    /\ UNCHANGED <<config, xdg, appState, media_keys, dbus_name, mutex, proxy,
                   handler, last, nSignals, ctorMapping, outcomes>>

\* line 234: std::unique_lock lock(gio_thread_mutex)
GioLock ==
    /\ tpc = "lock"
    /\ mutex = "free"
    /\ mutex' = "gio"
    /\ tpc' = "wait"
    /\ UNCHANGED <<config, xdg, appState, media_keys, dbus_name, mpc, waiters,
                   proxy, handler, busLog, last, nSignals, ctorMapping, outcomes>>

\* line 236: gio_thread_cv.wait(lock) releases the mutex and blocks
GioWait ==
    /\ tpc = "wait"
    /\ mutex = "gio"
    /\ mutex' = "free"
    /\ waiters' = waiters \cup {"gio"}
    /\ tpc' = "waiting"
    /\ UNCHANGED <<config, xdg, appState, media_keys, dbus_name, mpc, proxy,
                   handler, busLog, last, nSignals, ctorMapping, outcomes>>

\* line 236: the unblocked wait re-locks the mutex
GioReacquire ==
    /\ tpc = "woken"
    /\ mutex = "free"
    /\ mutex' = "gio"
    /\ tpc' = "release"
    /\ UNCHANGED <<config, xdg, appState, media_keys, dbus_name, mpc, waiters,
                   proxy, handler, busLog, last, nSignals, ctorMapping, outcomes>>

\* GioRelease that passes the bus service name instead of app_name
GioRelease_WrongName ==
    /\ tpc = "release"
    /\ Log(Op("ReleaseMediaPlayerKeys", dbus_name))
    /\ tpc' = "unref"
    /\ UNCHANGED <<config, xdg, appState, media_keys, dbus_name, mpc, mutex,
                   waiters, proxy, handler, last, nSignals, ctorMapping, outcomes>>

\* lines 239-246: ReleaseMediaPlayerKeys(app_name)
GioRelease ==
    /\ tpc = "release"
    /\ Log(Op("ReleaseMediaPlayerKeys", app_name))
    /\ tpc' = "unref"
    /\ UNCHANGED <<config, xdg, appState, media_keys, dbus_name, mpc, mutex,
                   waiters, proxy, handler, last, nSignals, ctorMapping, outcomes>>

\* GioUnref that returns without g_object_unref
GioUnref_Leak ==
    /\ tpc = "unref"
    /\ mutex' = "free"
    /\ tpc' = "exited"
    /\ UNCHANGED <<config, xdg, appState, media_keys, dbus_name, mpc, waiters,
                   proxy, handler, busLog, last, nSignals, ctorMapping, outcomes>>

\* lines 248-249: g_object_unref(proxy); the lock goes out of scope; return
GioUnref ==
    /\ tpc = "unref"
    /\ proxy' = "closed"
    /\ handler' = FALSE
    /\ Log(Op("g_object_unref", ""))
    /\ mutex' = "free"
    /\ tpc' = "exited"
    /\ UNCHANGED <<config, xdg, appState, media_keys, dbus_name, mpc, waiters,
                   last, nSignals, ctorMapping, outcomes>>

----------------------------------------------------------------------------
(* std::condition_variable::wait may unblock without a notification *)

SpuriousWakeup ==
    /\ \E t \in waiters :
          /\ waiters' = waiters \ {t}
          /\ mpc' = IF t = "main" THEN "woken" ELSE mpc
          /\ tpc' = IF t = "gio" THEN "woken" ELSE tpc
    /\ UNCHANGED <<config, xdg, appState, media_keys, dbus_name, mutex, proxy,
                   handler, busLog, last, nSignals, ctorMapping, outcomes>>

----------------------------------------------------------------------------
(* The bus runtime delivers a "g-signal" to on_gio_signal, lines 132-195 *)

\* on_gio_signal that also notifies gio_thread_cv
OnGioSignal_Notifies ==
    /\ handler
    /\ proxy = "live"
    /\ nSignals < MaxSignals
    /\ \E p \in Payloads :
          LET inv == HandlerCalls(p, appState, config.mapping, media_keys)
          IN /\ last' = [payload |-> p, state |-> StateRead(p, appState),
                          invoked |-> inv]
             /\ IF inv = <<>>
                THEN appState' = appState
                ELSE appState' \in AfterCall(inv[1], appState)
             /\ outcomes' = Append(outcomes, HandlerOutcome(p, inv))
    /\ \E t \in NotifyOne(waiters) :
          /\ waiters' = waiters \ {t}
          /\ mpc' = IF t = "main" THEN "woken" ELSE mpc
          /\ tpc' = IF t = "gio" THEN "woken" ELSE tpc
    /\ nSignals' = nSignals + 1
    /\ UNCHANGED <<config, xdg, media_keys, dbus_name, mutex, proxy, handler,
                   busLog, ctorMapping>>

OnGioSignal ==
    /\ handler
    /\ proxy = "live"
    /\ nSignals < MaxSignals
    /\ \E p \in Payloads :
          LET inv == HandlerCalls(p, appState, config.mapping, media_keys)
          IN /\ last' = [payload |-> p, state |-> StateRead(p, appState),
                          invoked |-> inv]
             /\ IF inv = <<>>
                THEN appState' = appState
                ELSE appState' \in AfterCall(inv[1], appState)
             /\ outcomes' = Append(outcomes, HandlerOutcome(p, inv))
    /\ nSignals' = nSignals + 1
    /\ UNCHANGED <<config, xdg, media_keys, dbus_name, mpc, tpc, mutex, waiters,
                   proxy, handler, busLog, ctorMapping>>

----------------------------------------------------------------------------
(* Environment *)

\* the application changes the mapping option in its configuration
SetMapping ==
    /\ config' = [config EXCEPT !.mapping = ~config.mapping]
    /\ UNCHANGED <<xdg, appState, media_keys, dbus_name, mpc, tpc, mutex, waiters,
                   proxy, handler, busLog, last, nSignals, ctorMapping, outcomes>>

\* the player changes state by itself (stream ends, user acts in the tray menu)
PlayerStateChange ==
    /\ appState' \in AppStates \ {appState}
    /\ UNCHANGED <<config, xdg, media_keys, dbus_name, mpc, tpc, mutex, waiters,
                   proxy, handler, busLog, last, nSignals, ctorMapping, outcomes>>

----------------------------------------------------------------------------

Next ==
    \/ CtorBuild \/ CtorSpawn \/ CtorWait \/ CtorReturn
    \/ DtorNotify \/ DtorJoin
    \/ GioConnect \/ GioFailNotify \/ GioRegister \/ GioGrab \/ GioNotifyReady
    \/ GioLock \/ GioWait \/ GioReacquire \/ GioRelease \/ GioUnref
    \/ SpuriousWakeup
    \/ OnGioSignal
    \/ SetMapping \/ PlayerStateChange

Spec == Init /\ [][Next]_vars

\* Both threads are scheduled: a step of the constructor, of the join or of
\* gio_thread that stays possible is eventually taken.  Nothing obliges the
\* owner to destroy the object, the bus to send signals, or a wait to unblock
\* spuriously.
Fairness ==
    /\ WF_vars(CtorBuild) /\ WF_vars(CtorSpawn) /\ WF_vars(CtorWait)
    /\ WF_vars(CtorReturn) /\ WF_vars(DtorJoin)
    /\ WF_vars(GioConnect) /\ WF_vars(GioFailNotify) /\ WF_vars(GioRegister)
    /\ WF_vars(GioGrab) /\ WF_vars(GioNotifyReady) /\ WF_vars(GioLock)
    /\ WF_vars(GioWait) /\ WF_vars(GioReacquire) /\ WF_vars(GioRelease)
    /\ WF_vars(GioUnref)

FairSpec == Init /\ [][Next]_vars /\ Fairness

SpecResolve == InitResolve /\ [][Next]_vars

----------------------------------------------------------------------------
(* Vocabulary of the properties *)

InLog(op) == \E i \in 1..Len(busLog) : busLog[i].op = op
CountInLog(op) == Cardinality({i \in 1..Len(busLog) : busLog[i].op = op})

CtorReturned == mpc \in {"constructed", "joining", "destroyed"}
DtorCalled == mpc \in {"joining", "destroyed"}
ConnFailed == InLog("connect_failed")
ConnEstablished == InLog("connect_ok")

\* bus calls other than the connection attempt itself
NoBusCall ==
    /\ ~InLog("g_signal_connect")
    /\ ~InLog("GrabMediaPlayerKeys")
    /\ ~InLog("ReleaseMediaPlayerKeys")
    /\ ~InLog("g_object_unref")

----------------------------------------------------------------------------
(* C1: for every interleaving of the constructor and gio_thread the        *)
(* constructor eventually returns, whether the connection succeeds or      *)
(* fails: the readiness notify_one is never missed by the constructor's    *)
(* wait.  Refuted: notify_one may run before the constructor waits.        *)
C1_ConstructorReturns == <>CtorReturned

(* C2: the constructor never returns before gio_thread has reported        *)
(* readiness: when it returns, gio_thread has failed to connect or has     *)
(* registered the signal handler and issued GrabMediaPlayerKeys.  Refuted: *)
(* the wait has no predicate and may unblock without a notification.       *)
C2_ReadyBeforeReturn ==
    CtorReturned =>
        \/ ConnFailed
        \/ (InLog("g_signal_connect") /\ InLog("GrabMediaPlayerKeys"))

(* C3: once the destructor is called on a constructed object it eventually *)
(* returns, for every interleaving, connected or not.  Refuted: the        *)
(* shutdown notify_one may run before gio_thread waits.                    *)
C3_DestructorReturns == (mpc = "joining") ~> (mpc = "destroyed")

(* C4: whenever the destructor has returned, gio_thread has terminated,    *)
(* and if the connection had been established then ReleaseMediaPlayerKeys  *)
(* has been issued and the connection handle has been closed.              *)
C4_DestroyedMeansStopped ==
    (mpc = "destroyed") =>
        /\ tpc = "exited"
        /\ ConnEstablished =>
              /\ InLog("ReleaseMediaPlayerKeys")
              /\ proxy = "closed"
              /\ ~handler

C4_Witness == mpc = "destroyed" /\ ConnEstablished /\ proxy = "closed"

(* C5: after a failed connection attempt the destructor is safe: it        *)
(* terminates (the notify_one finds no waiter, the join completes) and no  *)
(* ReleaseMediaPlayerKeys nor any other bus call is issued.                *)
C5_FailedDestructorSafe ==
    /\ [](ConnFailed => NoBusCall)
    /\ (ConnFailed /\ mpc = "joining") ~> (mpc = "destroyed")

C5_Witness == ConnFailed /\ mpc = "destroyed" /\ InLog("shutdown")

----------------------------------------------------------------------------
(* Signals *)

\* this step is on_gio_signal handling a well-formed signal with key name k
Handles(k) ==
    /\ nSignals' = nSignals + 1
    /\ last'.payload.kind = "tuple"
    /\ last'.payload.n = 2
    /\ last'.payload.isString
    /\ last'.payload.key = k

\* the last signal handled was well-formed with key name k
Handled(k) ==
    /\ nSignals > 0
    /\ last.payload.kind = "tuple"
    /\ last.payload.n = 2
    /\ last.payload.isString
    /\ last.payload.key = k

ConfiguredNames == {config.up, config.down, config.next, config.prev}
MappedKeys == SignalKeys \ {sPlay, sStop}

\* the action bound to configured name K: the last one written in the order
\* volume-up, volume-down, next-station, previous-station
BoundTo(K) ==
    IF ToLower(config.prev) = ToLower(K) THEN "previous_station_msg"
    ELSE IF ToLower(config.next) = ToLower(K) THEN "next_station_msg"
    ELSE IF ToLower(config.down) = ToLower(K) THEN "volume_down_msg"
    ELSE "volume_up_msg"

C7_PlayToggles ==
    [][Handles(sPlay) =>
          last'.invoked = IF appState = STATE_STOPPED THEN <<"play">> ELSE <<"stop">>]_vars

C7_Witness ==
    /\ Handled(sPlay) /\ last.invoked = <<"stop">>
    /\ ctorMapping /\ config.mapping /\ config.up = sPlayUpper

(* C8: a well-formed signal whose key name is exactly "Stop" invokes       *)
(* exactly stop(), for every playback state and mapping configuration.     *)
C8_StopStops == [][Handles(sStop) => last'.invoked = <<"stop">>]_vars

C8_Witness ==
    /\ Handled(sStop) /\ last.invoked = <<"stop">>
    /\ ctorMapping /\ config.mapping /\ config.down = sStop

(* C9: if the mapping option is false when the object is constructed or    *)
(* when the signal is handled, a signal whose key name is neither "Play"   *)
(* nor "Stop" invokes no action, even if the key name equals a configured  *)
(* name.                                                                   *)
C9_DisabledMappingIgnores ==
    [][\A k \in MappedKeys :
          (Handles(k) /\ (~ctorMapping \/ ~config.mapping)) => last'.invoked = <<>>]_vars

C9_Witness ==
    /\ Handled(sUpLower) /\ last.invoked = <<>>
    /\ ctorMapping /\ config.down = sUpLower

----------------------------------------------------------------------------
\* a payload on_gio_signal rejects: absent, not exactly two fields, or a second
\* field that cannot be read as a string
Malformed(p) == p.kind = "null" \/ p.n # 2 \/ ~p.isString

(* C11: a malformed payload never invokes a playback action and is only    *)
(* dropped: an error is logged, the playback state, both threads, the      *)
(* handler registration and the connection stay as they are, and a         *)
(* well-formed "Stop" or "Play" signal that follows is dispatched as       *)
(* usual.                                                                  *)
C11_MalformedIsDropped ==
    [][/\ (nSignals' = nSignals + 1 /\ Malformed(last'.payload)) =>
              /\ last'.invoked = <<>>
              /\ outcomes' = Append(outcomes, "error")
              /\ appState' = appState
              /\ tpc' = tpc /\ mpc' = mpc /\ waiters' = waiters
              /\ handler' = handler /\ proxy' = proxy
       /\ (nSignals > 0 /\ Malformed(last.payload)) =>
              /\ Handles(sStop) => last'.invoked = <<"stop">>
              /\ Handles(sPlay) =>
                    last'.invoked =
                        IF appState = STATE_STOPPED THEN <<"play">> ELSE <<"stop">>]_vars

C11_Witness ==
    /\ outcomes = <<"error", "stop">>
    /\ Handled(sStop)
    /\ tpc = "waiting"

----------------------------------------------------------------------------
\* the session identifier holds g, n, o, m, e in a row, each in either case
HasGnomeAnyCase(env) ==
    \E i \in 1..(Len(env) - 4) :
        \A j \in 1..5 : env[i + j - 1] \in {sGnome[j], sGnome[j] - 32}

(* C12: the resolved bus service name is a function of the legacy-name     *)
(* preference and the session identifier: preference true gives the legacy *)
(* name and false the modern name whatever the identifier; with no         *)
(* preference the name is the legacy one iff the identifier is readable    *)
(* and does not contain "gnome" in any casing, else the modern one.        *)
C12_ResolvedName ==
    (mpc # "init") =>
        dbus_name =
            IF config.oldName = "true" THEN LegacyName
            ELSE IF config.oldName = "false" THEN ModernName
            ELSE IF xdg.set /\ ~HasGnomeAnyCase(xdg.value) THEN LegacyName
            ELSE ModernName

C12_Witness ==
    /\ mpc # "init"
    /\ config.oldName = "absent"
    /\ xdg = Env(sUbuntuGnome)
    /\ dbus_name = ModernName
    /\ InLog("connect_ok")

----------------------------------------------------------------------------
\* the operations of gio_thread in the log, without the destructor's notification
IsGioOp(e) == e.op # "shutdown"
GioOps == SelectSeq(busLog, IsGioOp)

ExpectedOrder ==
    << Op("connect_ok", dbus_name),
       Op("g_signal_connect", ""),
       [op |-> "GrabMediaPlayerKeys", name |-> app_name, prio |-> 0],
       Op("ready", ""),
       Op("ReleaseMediaPlayerKeys", app_name),
       Op("g_object_unref", "") >>

(* C13: with a successful connection the bus operations occur in the order *)
(* connect, register the signal handler, GrabMediaPlayerKeys(app_name, 0), *)
(* readiness notification, ReleaseMediaPlayerKeys(app_name), close; each   *)
(* at most once, Release never before Grab, both with the same app_name.   *)
C13_BusOperationOrder ==
    ConnEstablished =>
        \E n \in 1..Len(ExpectedOrder) : GioOps = SubSeq(ExpectedOrder, 1, n)

C13_Witness == GioOps = ExpectedOrder /\ mpc = "destroyed"

(* C14: gio_thread leaves its wait only on an explicit shutdown request:   *)
(* ReleaseMediaPlayerKeys is never issued and the connection never closed  *)
(* before the destructor has issued its notification, whatever signals     *)
(* arrive and whatever else wakes the condition variable.  Refuted: the    *)
(* wait at line 236 has no predicate, so a wake-up without notification    *)
(* sends gio_thread on to the release.                                     *)
C14_ReleaseOnlyOnShutdown ==
    (InLog("ReleaseMediaPlayerKeys") \/ proxy = "closed" \/ tpc = "release")
        => InLog("shutdown")

----------------------------------------------------------------------------
\* the outcomes of the last two signals handled
LastTwo(o) == SubSeq(o, Len(o) - 1, Len(o))

(* C15: two consecutive well-formed "Play" signals, the first handled in   *)
(* state stopped and the second while the state that play() produced is    *)
(* still not stopped, invoke play() and then stop(), in that order.        *)
C15_PlayThenStop ==
    [][(/\ Handled(sPlay) /\ last.state = STATE_STOPPED
        /\ appState # STATE_STOPPED
        /\ Handles(sPlay)) =>
           /\ last.invoked = <<"play">>
           /\ last'.invoked = <<"stop">>
           /\ LastTwo(outcomes') = <<"play", "stop">>]_vars

C15_Witness ==
    /\ Handled(sPlay) /\ last.state # STATE_STOPPED
    /\ Len(outcomes) >= 2 /\ LastTwo(outcomes) = <<"play", "stop">>

----------------------------------------------------------------------------
\* some configured key name lower-cases to the same string as k
ConfiguredAnyCase(k) == \E K \in ConfiguredNames : ToLower(K) = ToLower(k)

(* C16: the hardcoded "Play" and "Stop" handling precedes the mapping:     *)
(* with the mapping enabled and a configured name that lower-cases to      *)
(* "play" or "stop", a key named exactly "Play" or "Stop" invokes only the *)
(* toggle or stop(), never the mapped action; another casing of the name   *)
(* reaches the mapping.                                                    *)
C16_HardcodedBeforeMapping ==
    [][(ctorMapping /\ config.mapping) =>
          /\ (Handles(sPlay) /\ ConfiguredAnyCase(sPlay)) =>
                last'.invoked \in {<<"play">>, <<"stop">>}
          /\ (Handles(sStop) /\ ConfiguredAnyCase(sStop)) =>
                last'.invoked = <<"stop">>
          /\ (Handles(sPlayLower) /\ ConfiguredAnyCase(sPlay)) =>
                last'.invoked = <<BoundTo(sPlay)>>]_vars

C16_Witness ==
    /\ ctorMapping /\ ConfiguredAnyCase(sPlay)
    /\ Handled(sPlayLower)
    /\ outcomes = <<"play", "volume_up_msg">>

----------------------------------------------------------------------------
(* C17: configured names that are equal after lower-casing share a single  *)
(* binding, the last one written in the order volume-up, volume-down,      *)
(* next-station, previous-station; the mapping has between 1 and 4 entries *)
(* when the option was enabled at construction and none otherwise.         *)
C17_LastWriteWins ==
    (mpc # "init") =>
        IF ctorMapping
        THEN /\ DOMAIN media_keys = {ToLower(K) : K \in ConfiguredNames}
             /\ Cardinality(DOMAIN media_keys) \in 1..4
             /\ \A K \in ConfiguredNames : media_keys[ToLower(K)] = BoundTo(K)
        ELSE Cardinality(DOMAIN media_keys) = 0

C17_Witness ==
    /\ mpc # "init" /\ ctorMapping
    /\ ToLower(config.up) = ToLower(config.down)
    /\ Cardinality(DOMAIN media_keys) = 2
    /\ media_keys[ToLower(config.up)] = "volume_down_msg"

----------------------------------------------------------------------------
(* C18: at most one connection handle ever exists for the object; it is    *)
(* live only while gio_thread has been started and has not exited; it is   *)
(* created and closed only by steps of gio_thread.                         *)
C18_OneHandleOwnedByThread ==
    /\ [](/\ CountInLog("connect_ok") <= 1
          /\ (proxy = "live" => tpc \notin {"none", "exited"}))
    /\ [][proxy' # proxy => (tpc' # tpc /\ mpc' = mpc)]_vars

C18_Witness ==
    /\ proxy = "live" /\ tpc = "waiting" /\ mpc = "constructed"
    /\ CountInLog("connect_ok") = 1

----------------------------------------------------------------------------
(* C19: handling a key-press signal neither takes gio_thread_mutex nor     *)
(* touches gio_thread_cv, and leaves the key mapping, the bus service      *)
(* name, the configuration, the connection and the position of both        *)
(* threads unchanged; while gio_thread is blocked in its wait with the     *)
(* handler registered, a signal can be handled.                            *)
C19_HandlerFrame ==
    /\ [][(nSignals' # nSignals) =>
             /\ mutex' = mutex /\ waiters' = waiters
             /\ media_keys' = media_keys /\ dbus_name' = dbus_name
             /\ config' = config /\ ctorMapping' = ctorMapping
             /\ proxy' = proxy /\ handler' = handler /\ busLog' = busLog
             /\ mpc' = mpc /\ tpc' = tpc]_vars
    /\ []((tpc = "waiting" /\ nSignals < MaxSignals) => ENABLED OnGioSignal)

C19_Witness ==
    /\ tpc = "waiting" /\ "gio" \in waiters /\ mutex = "free"
    /\ Handled(sNextLower) /\ last.invoked = <<"next_station_msg">>
    /\ ENABLED OnGioSignal

----------------------------------------------------------------------------
(* C20: playback actions are invoked only while the signal handler is      *)
(* registered on a live connection: none before g_signal_connect, none     *)
(* after the connection was closed, and so none after the destructor has   *)
(* returned.                                                               *)
C20_ActionsOnlyWhileConnected ==
    /\ [][(nSignals' # nSignals /\ last'.invoked # <<>>) =>
             /\ handler /\ proxy = "live"
             /\ InLog("g_signal_connect")
             /\ ~InLog("g_object_unref")
             /\ mpc # "destroyed"]_vars
    /\ []((mpc = "destroyed" \/ proxy # "live" \/ ~InLog("g_signal_connect"))
             => ~ENABLED OnGioSignal)

C20_Witness ==
    /\ mpc = "destroyed" /\ proxy = "closed"
    /\ Len(outcomes) = MaxSignals - 1
    /\ last.invoked # <<>>

====
